---- MODULE Spec2Model ----
(***************************************************************************)
(* A model of rez's Suite (src/rez/suite.py): a registry of named contexts *)
(* with a priority clock, per-context prefix / suffix / hidden tools /     *)
(* tool aliases, the memoized tool resolution (_update_tools), the save /   *)
(* load of the registry to a directory, and the run of a stub (Alias.run). *)
(*                                                                         *)
(* Python values are modelled as follows.  A dict is a function whose      *)
(* DOMAIN is the set of keys that are present; None is the empty tuple and *)
(* an attribute that is "None or a dict" holds None or <<dict>>.  A method *)
(* is an operator from the suite object (a record of its attributes) and   *)
(* the file system to the outcome [self, disk, exc, ret]; exc is None or   *)
(* <<exception type, message>>.                                            *)
(***************************************************************************)
EXTENDS Integers, Sequences, FiniteSets, TLC

VARIABLES load_path, contexts, next_priority, tools, tool_conflicts, disk, last, proc

vars == <<load_path, contexts, next_priority, tools, tool_conflicts, disk, last, proc>>

-----------------------------------------------------------------------------
(* Bounds of the exploration and the inputs the operations are called with *)

\* Calls that take a new priority are explored while the clock is at most this.
MaxPriority == 3

\* Hidden tools plus tool aliases, summed over the registry, explored up to this.
MaxOverrides == 1

ContextNames == {"maya", "nuke", "fx"}

\* The tools hide_tool / unhide_tool / alias_tool / dealias_tool are called with.
ToolNames == {"maya"}

Prefixes == {"fx_"}

Suffixes == {"_fx"}

ToolAliases == {"fx_maya", "nuke"}

\* A path is the tuple of its components.
Paths == {<<"suites", "a">>}

\* add_context is called with its default description.
Descriptions == {<<>>}

\* The command line of a process that runs a stub has at most this many tokens.
MaxArgs == 3

\* The cli_args an Alias is constructed with have at most this many tokens.
MaxCliArgs == 1

ArgTokens == {"+i", "+c", "+s", "echo", "-v"}

ArgVectors == UNION {[1..n -> ArgTokens] : n \in 0..MaxArgs}

CliArgVectors == UNION {[1..n -> ArgTokens] : n \in 0..MaxCliArgs}

\* The codes a shell returns.
ExitCodes == {0, 1}

-----------------------------------------------------------------------------
(* Python values *)

None == <<>>

Some(x) == <<x>>

EmptyDict == [k \in {} |-> None]

Get(d, k, default) == IF k \in DOMAIN d THEN d[k] ELSE default

Put(d, k, v) == [x \in DOMAIN d \cup {k} |-> IF x = k THEN v ELSE d[x]]

Del(d, k) == [x \in DOMAIN d \ {k} |-> d[x]]

Reversed(s) == [i \in 1..Len(s) |-> s[Len(s) + 1 - i]]

\* The outcome of a call: the object and the file system after it, the
\* exception it raised (None if it returned) and the value it returned.
Return(self, dsk, ret) == [self |-> self, disk |-> dsk, exc |-> None, ret |-> ret]

Raise(self, dsk, type, msg) ==
    [self |-> self, disk |-> dsk, exc |-> <<type, msg>>, ret |-> None]

-----------------------------------------------------------------------------
(* ResolvedContext: the opaque resolved environment.  get_tools returns a  *)
(* dict package -> (variant, tool names); the sequence given here is the   *)
(* order in which the values of that dict are iterated.                    *)

MayaContext ==
    [id |-> "maya_env", success |-> TRUE,
     tools |-> << <<"maya-2014", <<"maya">> >> >>]

NukeContext ==
    [id |-> "nuke_env", success |-> TRUE,
     tools |-> << <<"maya-2014", <<"maya">> >>, <<"nuke-8", <<"nuke">> >> >>]

FailedContext ==
    [id |-> "failed_env", success |-> FALSE, tools |-> <<>>]

ResolvedContexts == {MayaContext, NukeContext, FailedContext}

\* The (name, context) pairs add_context is called with.
AddRequests ==
    {<<"maya", MayaContext>>, <<"nuke", NukeContext>>,
     <<"fx", MayaContext>>, <<"fx", FailedContext>>}

\* ResolvedContext.get_tools(request_only=True).itervalues()
ResolvedContext_get_tools(ctx) == ctx.tools

-----------------------------------------------------------------------------
(* class Suite: the registry *)

\* Suite.__init__
Suite__init__ ==
    [load_path |-> None,
     contexts |-> EmptyDict,
     next_priority |-> 1,
     tools |-> None,
     tool_conflicts |-> None]

\* Suite.context_names
context_names(self) == DOMAIN self.contexts

\* Suite._context: the entry stored under name, or SuiteError.
_context(self, dsk, name) ==
    IF name \notin DOMAIN self.contexts
    THEN Raise(self, dsk, "SuiteError", "No such context")
    ELSE Return(self, dsk, self.contexts[name])

\* Suite._next_priority: returns the clock and advances it.
_next_priority(self, dsk) ==
    Return([self EXCEPT !.next_priority = @ + 1], dsk, self.next_priority)

\* Suite._flush_tools
_flush_tools(self) == [self EXCEPT !.tools = None, !.tool_conflicts = None]

\* Suite._sorted_contexts: the entries by ascending priority.
RECURSIVE SortedByPriority(_, _)
SortedByPriority(ctxs, names) ==
    IF names = {} THEN <<>>
    ELSE LET n == CHOOSE n \in names :
                     \A m \in names : ctxs[n]["priority"] <= ctxs[m]["priority"]
         IN  <<ctxs[n]>> \o SortedByPriority(ctxs, names \ {n})

\* A variant of _sorted_contexts that sorts by descending priority.
_sorted_contexts_descending(self) ==
    Reversed(SortedByPriority(self.contexts, DOMAIN self.contexts))

_sorted_contexts(self) == SortedByPriority(self.contexts, DOMAIN self.contexts)

\* A variant of add_context that takes the priority before its checks.
add_context_counts_first(self, dsk, name, ctx, description) ==
    LET p == _next_priority(self, dsk)
        data == [name |-> name,
                 context |-> ctx,
                 tool_aliases |-> EmptyDict,
                 hidden_tools |-> {},
                 description |-> description,
                 priority |-> p.ret]
    IN  IF name \in DOMAIN self.contexts
        THEN Raise(p.self, dsk, "SuiteError", "Context already in suite")
        ELSE IF ~ctx.success
        THEN Raise(p.self, dsk, "SuiteError", "Context is not resolved")
        ELSE Return(_flush_tools([p.self EXCEPT !.contexts = Put(@, name, data)]),
                    dsk, None)

\* Suite.add_context
add_context(self, dsk, name, ctx, description) ==
    IF name \in DOMAIN self.contexts
    THEN Raise(self, dsk, "SuiteError", "Context already in suite")
    ELSE IF ~ctx.success
    THEN Raise(self, dsk, "SuiteError", "Context is not resolved")
    ELSE LET p == _next_priority(self, dsk)
             data == [name |-> name,
                      context |-> ctx,
                      tool_aliases |-> EmptyDict,
                      hidden_tools |-> {},
                      description |-> description,
                      priority |-> p.ret]
         IN  Return(_flush_tools([p.self EXCEPT !.contexts = Put(@, name, data)]),
                    dsk, None)

\* Suite.remove_context
remove_context(self, dsk, name) ==
    LET c == _context(self, dsk, name)
    IN  IF c.exc # None THEN c
        ELSE Return(_flush_tools([self EXCEPT !.contexts = Del(@, name)]), dsk, None)

\* A variant of set_context_prefix that leaves the priority as it is.
set_context_prefix_keeps_priority(self, dsk, name, prefix) ==
    LET c == _context(self, dsk, name)
    IN  IF c.exc # None THEN c
        ELSE Return(_flush_tools(
                        [self EXCEPT !.contexts[name] = Put(c.ret, "prefix", prefix)]),
                    dsk, None)

\* Suite.set_context_prefix
set_context_prefix(self, dsk, name, prefix) ==
    LET c == _context(self, dsk, name)
    IN  IF c.exc # None THEN c
        ELSE LET p == _next_priority(self, dsk)
                 data == Put(Put(c.ret, "prefix", prefix), "priority", p.ret)
             IN  Return(_flush_tools([p.self EXCEPT !.contexts[name] = data]),
                        dsk, None)

\* Suite.set_context_suffix
set_context_suffix(self, dsk, name, suffix) ==
    LET c == _context(self, dsk, name)
    IN  IF c.exc # None THEN c
        ELSE LET p == _next_priority(self, dsk)
                 data == Put(Put(c.ret, "suffix", suffix), "priority", p.ret)
             IN  Return(_flush_tools([p.self EXCEPT !.contexts[name] = data]),
                        dsk, None)

\* A variant of bump_context that keeps the cached resolution.
bump_context_no_flush(self, dsk, name) ==
    LET c == _context(self, dsk, name)
    IN  IF c.exc # None THEN c
        ELSE LET p == _next_priority(self, dsk)
             IN  Return([p.self EXCEPT !.contexts[name] = Put(c.ret, "priority", p.ret)],
                        dsk, None)

\* Suite.bump_context
bump_context(self, dsk, name) ==
    LET c == _context(self, dsk, name)
    IN  IF c.exc # None THEN c
        ELSE LET p == _next_priority(self, dsk)
                 data == Put(c.ret, "priority", p.ret)
             IN  Return(_flush_tools([p.self EXCEPT !.contexts[name] = data]),
                        dsk, None)

\* A variant of hide_tool that keeps the cached resolution.
hide_tool_no_flush(self, dsk, context_name, tool_name) ==
    LET c == _context(self, dsk, context_name)
    IN  IF c.exc # None THEN c
        ELSE Return([self EXCEPT !.contexts[context_name]["hidden_tools"] =
                                     @ \cup {tool_name}],
                    dsk, None)

\* A variant of hide_tool that takes a new priority, as set_context_prefix does.
hide_tool_promotes(self, dsk, context_name, tool_name) ==
    LET c == _context(self, dsk, context_name)
    IN  IF c.exc # None THEN c
        ELSE IF tool_name \in c.ret["hidden_tools"] THEN Return(self, dsk, None)
        ELSE LET p == _next_priority(self, dsk)
                 data == Put(Put(c.ret, "hidden_tools",
                                 c.ret["hidden_tools"] \cup {tool_name}),
                             "priority", p.ret)
             IN  Return(_flush_tools([p.self EXCEPT !.contexts[context_name] = data]),
                        dsk, None)

\* Suite.hide_tool
hide_tool(self, dsk, context_name, tool_name) ==
    LET c == _context(self, dsk, context_name)
    IN  IF c.exc # None THEN c
        ELSE LET hidden_tools == c.ret["hidden_tools"]
             IN  IF tool_name \notin hidden_tools
                 THEN Return(_flush_tools(
                          [self EXCEPT !.contexts[context_name]["hidden_tools"] =
                                           hidden_tools \cup {tool_name}]),
                          dsk, None)
                 ELSE Return(self, dsk, None)

\* A variant of unhide_tool that flushes the cached resolution in every case.
unhide_tool_always_flushes(self, dsk, context_name, tool_name) ==
    LET c == _context(self, dsk, context_name)
    IN  IF c.exc # None THEN c
        ELSE Return(_flush_tools(
                        [self EXCEPT !.contexts[context_name]["hidden_tools"] =
                                         @ \ {tool_name}]),
                    dsk, None)

\* Suite.unhide_tool
unhide_tool(self, dsk, context_name, tool_name) ==
    LET c == _context(self, dsk, context_name)
    IN  IF c.exc # None THEN c
        ELSE LET hidden_tools == c.ret["hidden_tools"]
             IN  IF tool_name \in hidden_tools
                 THEN Return(_flush_tools(
                          [self EXCEPT !.contexts[context_name]["hidden_tools"] =
                                           hidden_tools \ {tool_name}]),
                          dsk, None)
                 ELSE Return(self, dsk, None)

\* Suite.alias_tool
alias_tool(self, dsk, context_name, tool_name, tool_alias) ==
    LET c == _context(self, dsk, context_name)
    IN  IF c.exc # None THEN c
        ELSE LET aliases == c.ret["tool_aliases"]
             IN  IF tool_name \notin DOMAIN aliases
                 THEN Return(_flush_tools(
                          [self EXCEPT !.contexts[context_name]["tool_aliases"] =
                                           Put(aliases, tool_name, tool_alias)]),
                          dsk, None)
                 ELSE Return(self, dsk, None)

\* Suite.dealias_tool
dealias_tool(self, dsk, context_name, tool_name) ==
    LET c == _context(self, dsk, context_name)
    IN  IF c.exc # None THEN c
        ELSE LET aliases == c.ret["tool_aliases"]
             IN  IF tool_name \in DOMAIN aliases
                 THEN Return(_flush_tools(
                          [self EXCEPT !.contexts[context_name]["tool_aliases"] =
                                           Del(aliases, tool_name)]),
                          dsk, None)
                 ELSE Return(self, dsk, None)

-----------------------------------------------------------------------------
(* The file system (os.path, shutil, open) and the collaborators that read *)
(* and write files.  disk.dirs is the set of directories, disk.files maps  *)
(* the path of each file to its content.                                   *)

EmptyDisk == [dirs |-> {}, files |-> EmptyDict]

IsPrefix(p, q) == Len(p) <= Len(q) /\ SubSeq(q, 1, Len(p)) = p

os_path_join(p, q) == p \o q

os_path_exists(dsk, p) == p \in dsk.dirs \/ p \in DOMAIN dsk.files

os_path_isfile(dsk, p) == p \in DOMAIN dsk.files

shutil_rmtree(dsk, p) ==
    [dirs |-> {d \in dsk.dirs : ~IsPrefix(p, d)},
     files |-> [f \in {g \in DOMAIN dsk.files : ~IsPrefix(p, g)} |-> dsk.files[f]]]

os_makedirs(dsk, p) ==
    [dsk EXCEPT !.dirs = @ \cup {SubSeq(p, 1, n) : n \in 1..Len(p)}]

WriteFile(dsk, p, content) == [dsk EXCEPT !.files = Put(@, p, content)]

\* The name of a context's snapshot: "%s.rxt" % name
RxtName(name) == name \o ".rxt"

\* ResolvedContext.save(filepath)
ResolvedContext_save(ctx, dsk, filepath) == WriteFile(dsk, filepath, <<"rxt", ctx>>)

\* ResolvedContext.load(filepath)
ResolvedContext_load(self, dsk, filepath) ==
    IF ~os_path_isfile(dsk, filepath)
    THEN Raise(self, dsk, "IOError", "No such file")
    ELSE IF dsk.files[filepath][1] # "rxt"
    THEN Raise(self, dsk, "ResolvedContextError", "Failed loading context")
    ELSE Return(self, dsk, dsk.files[filepath][2])

\* create_forwarding_script(filepath, module, func_name, **nargs)
create_forwarding_script(dsk, filepath, module, func_name, context_name, tool_name) ==
    WriteFile(dsk, filepath,
              [module |-> module, func_name |-> func_name,
               context_name |-> context_name, tool_name |-> tool_name])

\* yaml.dump of one entry of to_dict()["contexts"]: every value is written
\* as a node tagged with its type.
yaml_represent_entry(data) ==
    [k \in DOMAIN data |->
        CASE k \in {"name", "prefix", "suffix"} -> <<"str", data[k]>>
          [] k = "priority" -> <<"int", data[k]>>
          [] k = "description" -> <<"null", data[k]>>
          [] k = "hidden_tools" -> <<"set", data[k]>>
          [] k = "tool_aliases" ->
                <<"map", [t \in DOMAIN data[k] |-> <<"str", data[k][t]>>]>>
          [] OTHER -> <<"python/object", data[k]>>]

\* yaml.dump(data) for data = to_dict()
yaml_dump(data) ==
    <<"map", [contexts |->
                <<"map", [n \in DOMAIN data.contexts |->
                            <<"map", yaml_represent_entry(data.contexts[n])>>]>>]>>

\* yaml.load of one entry node
yaml_construct_entry(node) ==
    [k \in DOMAIN node |->
        IF node[k][1] = "map"
        THEN [t \in DOMAIN node[k][2] |-> node[k][2][t][2]]
        ELSE node[k][2]]

\* yaml.load(text): the document, or YAMLError for a text that is no document.
yaml_load(self, dsk, text) ==
    IF text[1] # "map"
    THEN Raise(self, dsk, "YAMLError", "could not parse")
    ELSE Return(self, dsk,
                [contexts |-> [n \in DOMAIN text[2].contexts[2] |->
                                 yaml_construct_entry(text[2].contexts[2][n][2])]])

-----------------------------------------------------------------------------
(* class Suite: lazy contexts and the tool resolution *)

\* A variant of context that does not keep the context it has read.
context_does_not_keep(self, dsk, name) ==
    LET c == _context(self, dsk, name)
    IN  IF c.exc # None THEN c
        ELSE IF "context" \in DOMAIN c.ret
        THEN Return(self, dsk, c.ret["context"])
        ELSE IF self.load_path = None
        THEN Raise(self, dsk, "AssertionError", "load_path")
        ELSE ResolvedContext_load(
                 self, dsk, os_path_join(self.load_path, <<"contexts", RxtName(name)>>))

\* Suite.context: the entry's context, read from load_path on first access.
context(self, dsk, name) ==
    LET c == _context(self, dsk, name)
    IN  IF c.exc # None THEN c
        ELSE IF "context" \in DOMAIN c.ret
        THEN Return(self, dsk, c.ret["context"])
        ELSE IF self.load_path = None
        THEN Raise(self, dsk, "AssertionError", "load_path")
        ELSE LET context_path ==
                     os_path_join(self.load_path, <<"contexts", RxtName(name)>>)
                 r == ResolvedContext_load(self, dsk, context_path)
             IN  IF r.exc # None THEN r
                 ELSE Return([self EXCEPT !.contexts[name] = Put(@, "context", r.ret)],
                             dsk, r.ret)

\* The (variant, tool_name) pairs in the order the two loops over
\* context_tools.itervalues() and tool_names visit them.
RECURSIVE ToolPairs(_)
ToolPairs(context_tools) ==
    IF context_tools = <<>> THEN <<>>
    ELSE LET variant == Head(context_tools)[1]
             tool_names == Head(context_tools)[2]
         IN  [i \in 1..Len(tool_names) |-> <<variant, tool_names[i]>>]
                 \o ToolPairs(Tail(context_tools))

\* A variant of ToolAlias that applies the prefix and the suffix to an explicit
\* alias too.
ToolAlias_prefixes_alias(data, tool_name) ==
    Get(data, "prefix", "")
        \o (IF tool_name \in DOMAIN data["tool_aliases"]
            THEN data["tool_aliases"][tool_name]
            ELSE tool_name)
        \o Get(data, "suffix", "")

\* The final alias of a tool of an entry: its explicit alias, else
\* prefix + name + suffix.
ToolAlias(data, tool_name) ==
    IF tool_name \in DOMAIN data["tool_aliases"]
    THEN data["tool_aliases"][tool_name]
    ELSE Get(data, "prefix", "") \o tool_name \o Get(data, "suffix", "")

\* One tool of one context: skipped if hidden, else the winner of its alias
\* if the alias is free, else appended to the alias's conflicts.
AddTool(self, data, variant, tool_name) ==
    IF tool_name \in data["hidden_tools"] THEN self
    ELSE LET alias == ToolAlias(data, tool_name)
             entry == [tool_name |-> tool_name,
                       tool_alias |-> alias,
                       context_name |-> data["name"],
                       variant |-> variant]
         IN  IF alias \in DOMAIN self.tools[1]
             THEN [self EXCEPT !.tool_conflicts =
                       Some(Put(@[1], alias, Append(Get(@[1], alias, <<>>), entry)))]
             ELSE [self EXCEPT !.tools = Some(Put(@[1], alias, entry))]

\* The loops over one context's tools.
RECURSIVE AddContextTools(_, _, _)
AddContextTools(self, data, pairs) ==
    IF pairs = <<>> THEN self
    ELSE AddContextTools(AddTool(self, data, Head(pairs)[1], Head(pairs)[2]),
                         data, Tail(pairs))

\* The loop over the entries, highest priority first.
RECURSIVE UpdateContexts(_, _, _)
UpdateContexts(self, dsk, datas) ==
    IF datas = <<>> THEN Return(self, dsk, None)
    ELSE LET data == Head(datas)
             c == context(self, dsk, data["name"])
         IN  IF c.exc # None THEN c
             ELSE UpdateContexts(
                      AddContextTools(c.self, data,
                                      ToolPairs(ResolvedContext_get_tools(c.ret))),
                      dsk, Tail(datas))

\* Suite._update_tools
_update_tools(self, dsk) ==
    IF self.tools # None THEN Return(self, dsk, None)
    ELSE UpdateContexts([self EXCEPT !.tools = Some(EmptyDict),
                                     !.tool_conflicts = Some(EmptyDict)],
                        dsk, Reversed(_sorted_contexts(self)))

\* Suite.get_tools
get_tools(self, dsk) ==
    LET u == _update_tools(self, dsk)
    IN  IF u.exc # None THEN u ELSE Return(u.self, dsk, u.self.tools[1])

\* Suite.get_conflicting_aliases
get_conflicting_aliases(self, dsk) ==
    LET u == _update_tools(self, dsk)
    IN  IF u.exc # None THEN u
        ELSE Return(u.self, dsk, DOMAIN u.self.tool_conflicts[1])

\* Suite.get_alias_conflicts
get_alias_conflicts(self, dsk, tool_alias) ==
    LET u == _update_tools(self, dsk)
    IN  IF u.exc # None THEN u
        ELSE Return(u.self, dsk, Get(u.self.tool_conflicts[1], tool_alias, None))

-----------------------------------------------------------------------------
(* class Suite: to_dict / from_dict / save / load *)

\* Suite.to_dict: every entry without its "context".
to_dict(self) ==
    [contexts |-> [k \in DOMAIN self.contexts |-> Del(self.contexts[k], "context")]]

Max(S) == CHOOSE x \in S : \A y \in S : y <= x

\* A variant of from_dict that sets the clock to the greatest stored priority.
from_dict_same_clock(self, dsk, d) ==
    IF DOMAIN d["contexts"] = {}
    THEN Raise(self, dsk, "ValueError", "max() arg is an empty sequence")
    ELSE Return(self, dsk,
                [load_path |-> None,
                 tools |-> None,
                 tool_conflicts |-> None,
                 contexts |-> d["contexts"],
                 next_priority |->
                     Max({d["contexts"][n]["priority"] : n \in DOMAIN d["contexts"]})])

\* Suite.from_dict: max() of an empty sequence raises ValueError.
from_dict(self, dsk, d) ==
    IF DOMAIN d["contexts"] = {}
    THEN Raise(self, dsk, "ValueError", "max() arg is an empty sequence")
    ELSE Return(self, dsk,
                [load_path |-> None,
                 tools |-> None,
                 tool_conflicts |-> None,
                 contexts |-> d["contexts"],
                 next_priority |->
                     Max({d["contexts"][n]["priority"] : n \in DOMAIN d["contexts"]}) + 1])

\* The "write contexts" loop of save, over the context names in the given order.
RECURSIVE SaveContexts(_, _, _, _)
SaveContexts(self, dsk, contexts_path, order) ==
    IF order = <<>> THEN Return(self, dsk, None)
    ELSE LET context_name == Head(order)
             c == context(self, dsk, context_name)
         IN  IF c.exc # None THEN c
             ELSE SaveContexts(
                      c.self,
                      ResolvedContext_save(
                          c.ret, dsk,
                          os_path_join(contexts_path, <<RxtName(context_name)>>)),
                      contexts_path, Tail(order))

\* A variant of SaveWrappers that names each stub by the original tool name.
RECURSIVE SaveWrappers_by_tool_name(_, _, _, _)
SaveWrappers_by_tool_name(dsk, bin_path, tls, aliases) ==
    IF aliases = {} THEN dsk
    ELSE LET tool_alias == CHOOSE a \in aliases : TRUE
             d == tls[tool_alias]
         IN  SaveWrappers_by_tool_name(
                 create_forwarding_script(
                     dsk, os_path_join(bin_path, <<d.tool_name>>), "suite",
                     "_FWD__invoke_suite_tool_alias", d.context_name, d.tool_name),
                 bin_path, tls, aliases \ {tool_alias})

\* The "create alias wrappers" loop of save.
RECURSIVE SaveWrappers(_, _, _, _)
SaveWrappers(dsk, bin_path, tls, aliases) ==
    IF aliases = {} THEN dsk
    ELSE LET tool_alias == CHOOSE a \in aliases : TRUE
             d == tls[tool_alias]
         IN  SaveWrappers(
                 create_forwarding_script(
                     dsk, os_path_join(bin_path, <<tool_alias>>), "suite",
                     "_FWD__invoke_suite_tool_alias", d.context_name, d.tool_name),
                 bin_path, tls, aliases \ {tool_alias})

\* Suite.save; order is the order in which self.context_names is iterated.
save(self, dsk, path, order) ==
    LET d0 == IF os_path_exists(dsk, path) THEN shutil_rmtree(dsk, path) ELSE dsk
        contexts_path == os_path_join(path, <<"contexts">>)
        d1 == os_makedirs(d0, contexts_path)
        d2 == WriteFile(d1, os_path_join(path, <<"suite.yaml">>),
                        yaml_dump(to_dict(self)))
        w == SaveContexts(self, d2, contexts_path, order)
    IN  IF w.exc # None THEN w
        ELSE LET bin_path == os_path_join(path, <<"bin">>)
                 d3 == os_makedirs(w.disk, bin_path)
                 t == get_tools(w.self, d3)
             IN  IF t.exc # None THEN t
                 ELSE Return(t.self, SaveWrappers(d3, bin_path, t.ret, DOMAIN t.ret),
                             None)

\* Suite.load (a classmethod): ret is the new suite; self is the caller's.
load(self, dsk, path) ==
    IF ~os_path_exists(dsk, path)
    THEN Raise(self, dsk, "IOError", "No such file or directory")
    ELSE LET filepath == os_path_join(path, <<"suite.yaml">>)
         IN  IF ~os_path_isfile(dsk, filepath)
             THEN Raise(self, dsk, "SuiteError", "Not a suite")
             ELSE LET y == yaml_load(self, dsk, dsk.files[filepath])
                  IN  IF y.exc # None
                      THEN Raise(self, dsk, "SuiteError", "Failed loading suite")
                      ELSE LET s == from_dict(self, dsk, y.ret)
                           IN  IF s.exc # None THEN s
                               ELSE Return(self, dsk, [s.ret EXCEPT !.load_path = path])

-----------------------------------------------------------------------------
(* class Alias and the function a stub forwards to *)

\* argparse.ArgumentParser(prefix_chars="+") with the options Alias.run adds.
InteractiveFlags == {"+i", "++interactive"}

CommandFlags == {"+c", "++command"}

RcfileFlags == {"++rcfile"}

NorcFlags == {"++norc"}

StdinFlags == {"+s", "++stdin"}

OptionStrings ==
    InteractiveFlags \cup CommandFlags \cup RcfileFlags \cup NorcFlags \cup StdinFlags

\* The namespace of a parse in which no option was given.
DefaultOpts ==
    [interactive |-> FALSE, command |-> None, rcfile |-> None, norc |-> FALSE,
     stdin |-> FALSE]

\* The arguments an option takes: the tokens up to the next option string.
RECURSIVE TakeArgs(_)
TakeArgs(args) ==
    IF args = <<>> \/ Head(args) \in OptionStrings THEN <<>>
    ELSE <<Head(args)>> \o TakeArgs(Tail(args))

\* parser.parse_known_args(args): the namespace and the tokens that are no
\* option and no option's argument, in their order; a usage error exits with 2.
RECURSIVE parse_known_args(_, _, _)
parse_known_args(args, opts, extras) ==
    IF args = <<>> THEN [exc |-> None, opts |-> opts, tool_args |-> extras]
    ELSE LET tok == Head(args)
             rest == Tail(args)
             taken == TakeArgs(rest)
             after == SubSeq(rest, Len(taken) + 1, Len(rest))
             usage == [exc |-> <<"SystemExit", 2>>, opts |-> opts, tool_args |-> extras]
         IN  CASE tok \in InteractiveFlags ->
                      parse_known_args(rest, [opts EXCEPT !.interactive = TRUE], extras)
               [] tok \in NorcFlags ->
                      parse_known_args(rest, [opts EXCEPT !.norc = TRUE], extras)
               [] tok \in StdinFlags ->
                      parse_known_args(rest, [opts EXCEPT !.stdin = TRUE], extras)
               [] tok \in CommandFlags ->
                      IF taken = <<>> THEN usage
                      ELSE parse_known_args(after, [opts EXCEPT !.command = taken],
                                            extras)
               [] tok \in RcfileFlags ->
                      IF taken = <<>> THEN usage
                      ELSE parse_known_args(Tail(rest),
                                            [opts EXCEPT !.rcfile = Some(Head(rest))],
                                            extras)
               [] OTHER -> parse_known_args(rest, opts, Append(extras, tok))

\* ResolvedContext.execute_shell(command, stdin, rcfile, norc, block): the
\* shell that was run, and the code it returned.
ResolvedContext_execute_shell(ctx, command, stdin, rcfile, norc, block, retcode) ==
    [shell |-> [context |-> ctx.id, command |-> command, stdin |-> stdin,
                rcfile |-> rcfile, norc |-> norc, block |-> block],
     retcode |-> retcode]

\* Alias.__init__
Alias__init__(context_name, ctx, tool_name, cli_args) ==
    [context_name |-> context_name, context |-> ctx, tool_name |-> tool_name,
     cli_args |-> cli_args]

\* A variant of Alias_command in which the interactive flag comes first.
Alias_command_interactive_first(self, opts, tool_args) ==
    IF opts.interactive THEN None
    ELSE IF opts.command # None THEN opts.command
    ELSE <<self.tool_name>> \o tool_args

\* Alias.run, "construct command": None stands for no command.
Alias_command(self, opts, tool_args) ==
    IF opts.command # None THEN opts.command
    ELSE IF opts.interactive THEN None
    ELSE <<self.tool_name>> \o tool_args

\* Alias.run.  parse_known_args() is called without arguments, so it parses
\* the command line of the process, sys_argv; stdin_ready is what select
\* reports for sys.stdin and retcode is what the shell returns.  shells is the
\* sequence of the shells executed and prompt the prompt override, if any.
Alias_run(self, sys_argv, stdin_ready, retcode) ==
    LET p == parse_known_args(sys_argv, DefaultOpts, <<>>)
        stdin == p.opts.stdin /\ stdin_ready
        prompt == IF p.opts.command = None /\ p.opts.interactive
                  THEN Some(self.context_name \o ">")
                  ELSE None
        e == ResolvedContext_execute_shell(
                 self.context, Alias_command(self, p.opts, p.tool_args), stdin,
                 p.opts.rcfile, p.opts.norc, TRUE, retcode)
    IN  IF p.exc # None
        THEN [exc |-> p.exc, ret |-> None, shells |-> <<>>, prompt |-> None]
        ELSE [exc |-> None, ret |-> Some(e.retcode), shells |-> <<e.shell>>,
              prompt |-> prompt]

os_path_dirname(p) == SubSeq(p, 1, Len(p) - 1)

\* _FWD__invoke_suite_tool_alias: the run of the alias, and the exception the
\* function ends with (sys.exit raises SystemExit).
_FWD__invoke_suite_tool_alias(dsk, context_name, tool_name, _script, _cli_args, sys_argv, stdin_ready, retcode) ==
    LET suite_path == os_path_dirname(os_path_dirname(_script))
        path == os_path_join(suite_path, <<"contexts", RxtName(context_name)>>)
        c == ResolvedContext_load(None, dsk, path)
        alias == Alias__init__(context_name, c.ret, tool_name, _cli_args)
        r == Alias_run(alias, sys_argv, stdin_ready, retcode)
    IN  IF c.exc # None THEN [exc |-> c.exc, alias |-> None, run |-> None]
        ELSE IF r.exc # None THEN [exc |-> r.exc, alias |-> alias, run |-> r]
        ELSE [exc |-> <<"SystemExit", r.ret[1]>>, alias |-> alias, run |-> r]

-----------------------------------------------------------------------------
(* The state machine: one suite object, the file system, the last call, and *)
(* the last process that ran a stub                                          *)

\* The suite object, as the record of its attributes.
Self ==
    [load_path |-> load_path,
     contexts |-> contexts,
     next_priority |-> next_priority,
     tools |-> tools,
     tool_conflicts |-> tool_conflicts]

\* Hidden tools plus tool aliases over the registry.
RECURSIVE Overrides(_, _)
Overrides(ctxs, names) ==
    IF names = {} THEN 0
    ELSE LET n == CHOOSE n \in names : TRUE
         IN  Cardinality(ctxs[n]["hidden_tools"])
                 + Cardinality(DOMAIN ctxs[n]["tool_aliases"])
                 + Overrides(ctxs, names \ {n})

\* The states that are explored.
Bounded(self) ==
    /\ self.next_priority <= MaxPriority + 1
    /\ Overrides(self.contexts, DOMAIN self.contexts) <= MaxOverrides

\* A call op(args) with outcome r: the object and the file system become
\* those of the outcome, and the call and its exception are recorded.
Call(op, args, r) ==
    /\ Bounded(r.self)
    /\ load_path' = r.self.load_path
    /\ contexts' = r.self.contexts
    /\ next_priority' = r.self.next_priority
    /\ tools' = r.self.tools
    /\ tool_conflicts' = r.self.tool_conflicts
    /\ disk' = r.disk
    /\ last' = [op |-> op, args |-> args, exc |-> r.exc]
    /\ proc' = proc

\* The orders in which a dict with the given keys can be iterated.
Orders(keys) ==
    {o \in [1..Cardinality(keys) -> keys] : \A k \in keys : \E i \in DOMAIN o : o[i] = k}

Init ==
    /\ load_path = Suite__init__.load_path
    /\ contexts = Suite__init__.contexts
    /\ next_priority = Suite__init__.next_priority
    /\ tools = Suite__init__.tools
    /\ tool_conflicts = Suite__init__.tool_conflicts
    /\ disk = EmptyDisk
    /\ last = [op |-> "__init__", args |-> <<>>, exc |-> None]
    /\ proc = None

AddContext ==
    \E req \in AddRequests, description \in Descriptions :
        Call("add_context", <<req[1], req[2].id>>,
             add_context(Self, disk, req[1], req[2], description))

RemoveContext ==
    \E name \in ContextNames :
        Call("remove_context", <<name>>, remove_context(Self, disk, name))

SetContextPrefix ==
    \E name \in ContextNames, prefix \in Prefixes :
        Call("set_context_prefix", <<name, prefix>>,
             set_context_prefix(Self, disk, name, prefix))

SetContextSuffix ==
    \E name \in ContextNames, suffix \in Suffixes :
        Call("set_context_suffix", <<name, suffix>>,
             set_context_suffix(Self, disk, name, suffix))

BumpContext ==
    \E name \in ContextNames :
        Call("bump_context", <<name>>, bump_context(Self, disk, name))

HideTool ==
    \E name \in ContextNames, tool_name \in ToolNames :
        Call("hide_tool", <<name, tool_name>>, hide_tool(Self, disk, name, tool_name))

UnhideTool ==
    \E name \in ContextNames, tool_name \in ToolNames :
        Call("unhide_tool", <<name, tool_name>>,
             unhide_tool(Self, disk, name, tool_name))

AliasTool ==
    \E name \in ContextNames, tool_name \in ToolNames, tool_alias \in ToolAliases :
        Call("alias_tool", <<name, tool_name, tool_alias>>,
             alias_tool(Self, disk, name, tool_name, tool_alias))

DealiasTool ==
    \E name \in ContextNames, tool_name \in ToolNames :
        Call("dealias_tool", <<name, tool_name>>,
             dealias_tool(Self, disk, name, tool_name))

GetContext ==
    \E name \in ContextNames :
        Call("context", <<name>>, context(Self, disk, name))

GetTools ==
    Call("get_tools", <<>>, get_tools(Self, disk))

Save ==
    \E path \in Paths, order \in Orders(context_names(Self)) :
        Call("save", <<path>>, save(Self, disk, path, order))

\* A successful load makes the loaded suite the object under consideration.
Load ==
    \E path \in Paths :
        LET r == load(Self, disk, path)
        IN  Call("load", <<path>>, IF r.exc = None THEN [r EXCEPT !.self = r.ret] ELSE r)

\* The registry in memory: the mutations and the resolution.
Next ==
    \/ AddContext
    \/ RemoveContext
    \/ SetContextPrefix
    \/ SetContextSuffix
    \/ BumpContext
    \/ HideTool
    \/ UnhideTool
    \/ AliasTool
    \/ DealiasTool
    \/ GetTools

Spec == Init /\ [][Next]_vars

\* The registry with its directory: save, load, lazy contexts.
NextIO ==
    \/ AddContext
    \/ RemoveContext
    \/ SetContextPrefix
    \/ BumpContext
    \/ GetContext
    \/ GetTools
    \/ Save
    \/ Load

SpecIO == Init /\ [][NextIO]_vars

\* A suite directory: two contexts, one of them prefixed, saved to a path.
SuiteOnDisk ==
    LET path == CHOOSE p \in Paths : TRUE
        a == add_context(Suite__init__, EmptyDisk, "nuke", NukeContext, None)
        b == add_context(a.self, a.disk, "maya", MayaContext, None)
        c == set_context_prefix(b.self, b.disk, "nuke", "fx_")
        order == CHOOSE o \in Orders(context_names(c.self)) : TRUE
    IN  [path |-> path, saved |-> save(c.self, c.disk, path, order)]

InitAlias ==
    /\ load_path = SuiteOnDisk.saved.self.load_path
    /\ contexts = SuiteOnDisk.saved.self.contexts
    /\ next_priority = SuiteOnDisk.saved.self.next_priority
    /\ tools = SuiteOnDisk.saved.self.tools
    /\ tool_conflicts = SuiteOnDisk.saved.self.tool_conflicts
    /\ disk = SuiteOnDisk.saved.disk
    /\ last = [op |-> "save", args |-> <<SuiteOnDisk.path>>, exc |-> SuiteOnDisk.saved.exc]
    /\ proc = None

\* The stubs of the suite directories on the disk.
Stubs(dsk) ==
    {f \in DOMAIN dsk.files : Len(f) > 2 /\ f[Len(f) - 1] = "bin"}

\* A process runs a stub: the forwarding script calls the function it names
\* with the arguments stored in it, its own path and the arguments it was
\* given.  One process is followed, from its start to its exit.
InvokeAlias ==
    /\ proc = None
    /\ \E _script \in Stubs(disk), _cli_args \in CliArgVectors, sys_argv \in ArgVectors,
          stdin_ready \in BOOLEAN, retcode \in ExitCodes :
           LET stub == disk.files[_script]
               r == _FWD__invoke_suite_tool_alias(
                        disk, stub.context_name, stub.tool_name, _script, _cli_args,
                        sys_argv, stdin_ready, retcode)
           IN  /\ proc' = [script |-> _script, cli_args |-> _cli_args,
                           sys_argv |-> sys_argv, stdin_ready |-> stdin_ready,
                           retcode |-> retcode, alias |-> r.alias, run |-> r.run,
                           exc |-> r.exc]
               /\ UNCHANGED <<load_path, contexts, next_priority, tools, tool_conflicts,
                              disk, last>>

NextAlias == InvokeAlias

SpecAlias == InitAlias /\ [][NextAlias]_vars

-----------------------------------------------------------------------------
(* What the claims speak about *)

\* The alias a tool of an entry is documented to be exposed under.
ExpectedAlias(data, tool_name) ==
    IF tool_name \in DOMAIN data["tool_aliases"]
    THEN data["tool_aliases"][tool_name]
    ELSE (IF "prefix" \in DOMAIN data THEN data["prefix"] ELSE "")
             \o tool_name
             \o (IF "suffix" \in DOMAIN data THEN data["suffix"] ELSE "")

\* The claims of one entry: one per (variant, tool) of its context whose tool
\* is not hidden.
ClaimsOf(data) ==
    LET pairs == ToolPairs(ResolvedContext_get_tools(data["context"]))
    IN  {[tool_name |-> pairs[i][2],
          tool_alias |-> ExpectedAlias(data, pairs[i][2]),
          context_name |-> data["name"],
          variant |-> pairs[i][1]] :
            i \in {j \in DOMAIN pairs : pairs[j][2] \notin data["hidden_tools"]}}

\* The claims of a registry, and those on one alias.
Claims(ctxs) == UNION {ClaimsOf(ctxs[c]) : c \in DOMAIN ctxs}

Claimants(ctxs, alias) == {e \in Claims(ctxs) : e.tool_alias = alias}

ClaimedAliases(ctxs) == {e.tool_alias : e \in Claims(ctxs)}

\* What get_tools() and get_alias_conflicts(alias) return in the current state.
Winners == get_tools(Self, disk).ret

ConflictsOf(alias) == get_alias_conflicts(Self, disk, alias).ret

Range(seq) == {seq[i] : i \in DOMAIN seq}

\* Every entry of the winning table and of the conflict lists.
ResolvedEntries ==
    Range(Winners) \cup UNION {Range(ConflictsOf(a)) : a \in DOMAIN Winners}

Returned == last.exc = None

\* The calls that take a new priority for their context.
IsPromotion ==
    /\ last.op \in {"add_context", "set_context_prefix", "set_context_suffix",
                    "bump_context"}
    /\ Returned

-----------------------------------------------------------------------------
(* The claims *)

\* C1: for every final alias claimed by one or more contexts, get_tools() maps
\* the alias to a claimant whose context has the highest priority among the
\* claimants, and get_alias_conflicts(alias) lists exactly the other claimants,
\* each once, in descending order of their context's priority; the aliases of
\* get_tools() are exactly the claimed ones.
C1_HighestPriorityWins ==
    /\ DOMAIN Winners = ClaimedAliases(contexts)
    /\ \A alias \in ClaimedAliases(contexts) :
           LET winner == Winners[alias]
               losers == ConflictsOf(alias)
               all == Claimants(contexts, alias)
           IN  /\ winner \in all
               /\ \A e \in all :
                      contexts[e.context_name]["priority"]
                          <= contexts[winner.context_name]["priority"]
               /\ Range(losers) = all \ {winner}
               /\ Len(losers) = Cardinality(all) - 1
               /\ \A i, j \in DOMAIN losers :
                      i < j => contexts[losers[i].context_name]["priority"]
                                   >= contexts[losers[j].context_name]["priority"]

\* C1 witness: after get_tools(), an alias that a tool has through an explicit
\* alias or a prefix / suffix is won over the claim of another context.
C1_Witness ==
    /\ last.op = "get_tools"
    /\ \E alias \in DOMAIN tool_conflicts[1] :
           /\ tools[1][alias].tool_name # alias
           /\ \E i \in DOMAIN tool_conflicts[1][alias] :
                  tool_conflicts[1][alias][i].context_name
                      # tools[1][alias].context_name

\* C2: no entry of get_tools() and no entry of any conflict list names a tool
\* that is hidden in its context, or a context that is not in the registry.
C2_NoHiddenNoRemoved ==
    \A e \in ResolvedEntries :
        /\ e.context_name \in DOMAIN contexts
        /\ e.tool_name \notin contexts[e.context_name]["hidden_tools"]

\* C2 witness: hide_tool has just hidden a tool that its context provides, with
\* another context in the registry.
C2_Witness ==
    /\ last.op = "hide_tool"
    /\ tools = None
    /\ \E c \in DOMAIN contexts :
           /\ last.args = <<c, "maya">>
           /\ "maya" \in contexts[c]["hidden_tools"]
           /\ DOMAIN contexts # {c}

\* C4: right after a successful add_context(c), set_context_prefix(c),
\* set_context_suffix(c) or bump_context(c), c has the strictly greatest priority
\* of the registry, and get_tools() gives every alias that c claims through a
\* tool that is not hidden to a tool of c.
C4_PromotedContextWins ==
    IsPromotion =>
        LET c == last.args[1]
        IN  /\ c \in DOMAIN contexts
            /\ \A d \in DOMAIN contexts \ {c} :
                   contexts[d]["priority"] < contexts[c]["priority"]
            /\ \A e \in ClaimsOf(contexts[c]) :
                   Winners[e.tool_alias].context_name = c

\* C4 witness: a context was bumped and now wins an alias that another context
\* claims too.
C4_Witness ==
    /\ IsPromotion
    /\ last.op = "bump_context"
    /\ \E e \in ClaimsOf(contexts[last.args[1]]) :
           \E f \in Claimants(contexts, e.tool_alias) :
               f.context_name # last.args[1]

\* C5: every tool of a context that has an explicit alias is exposed under
\* exactly that alias, and every other tool of the context under
\* prefix + name + suffix: each claim of each context is in the winning table
\* or in its alias's conflict list, and a tool is resolved under no other alias.
C5_ExplicitAliasFirst ==
    /\ Claims(contexts) \subseteq ResolvedEntries
    /\ \A e \in ResolvedEntries :
           e.tool_alias = ExpectedAlias(contexts[e.context_name], e.tool_name)

\* C5 witness: alias_tool was called on a context that already had a prefix,
\* and the alias is not what the prefix would give.
C5_Witness ==
    /\ last.op = "alias_tool"
    /\ Returned
    /\ \E c \in DOMAIN contexts :
           /\ last.args[1] = c
           /\ "prefix" \in DOMAIN contexts[c]
           /\ "maya" \in DOMAIN contexts[c]["tool_aliases"]
           /\ contexts[c]["tool_aliases"]["maya"] # contexts[c]["prefix"] \o "maya"
           /\ \E e \in ClaimsOf(contexts[c]) : e.tool_name = "maya"


\* C3: in every state no two entries have the same priority and the clock is
\* greater than the priority of every entry; and in every step of one suite
\* object (every step but a successful load, which makes a new object whose
\* clock is one past the greatest stored priority) the clock does not go back
\* and a priority given to an entry is at least the clock before the step and
\* less than the clock after it, so greater than every priority given before.
C3_State ==
    /\ \A c, d \in DOMAIN contexts :
           c # d => contexts[c]["priority"] # contexts[d]["priority"]
    /\ \A c \in DOMAIN contexts : contexts[c]["priority"] < next_priority

C3_Step ==
    ~(last'.op = "load" /\ last'.exc = None) =>
        /\ next_priority' >= next_priority
        /\ \A c \in DOMAIN contexts' :
               (c \notin DOMAIN contexts
                    \/ contexts'[c]["priority"] # contexts[c]["priority"]) =>
                   /\ contexts'[c]["priority"] >= next_priority
                   /\ contexts'[c]["priority"] < next_priority'

C3_PrioritiesIncrease == []C3_State /\ [][C3_Step]_vars

\* C3 witness: a context was added to a loaded suite that holds an entry whose
\* context was not read yet.
C3_Witness ==
    /\ last.op = "add_context"
    /\ Returned
    /\ load_path # None
    /\ \E c \in DOMAIN contexts : "context" \notin DOMAIN contexts[c]

\* C6: after a successful alias_tool(c, t, a), c's tool_aliases maps t to a and
\* the resolution exposes c's tool t under a.
C6_AliasToolSetsAlias ==
    (last.op = "alias_tool" /\ Returned) =>
        LET c == last.args[1]
            t == last.args[2]
            a == last.args[3]
        IN  /\ t \in DOMAIN contexts[c]["tool_aliases"]
            /\ contexts[c]["tool_aliases"][t] = a
            /\ \A e \in ResolvedEntries :
                   (e.context_name = c /\ e.tool_name = t) => e.tool_alias = a

\* C7: a registry mutation that raises leaves the suite object (entries,
\* clock, cached resolution, load_path) and the file system as they were.
Mutations ==
    {"add_context", "remove_context", "set_context_prefix", "set_context_suffix",
     "bump_context", "hide_tool", "unhide_tool", "alias_tool", "dealias_tool"}

C7_Step ==
    (last'.op \in Mutations /\ last'.exc # None) =>
        UNCHANGED <<load_path, contexts, next_priority, tools, tool_conflicts, disk>>

C7_FailedMutationChangesNothing == [][C7_Step]_vars

\* C7 witness: a mutation was refused on a registry that holds a context and a
\* cached resolution.
C7_Witness ==
    /\ last.op \in Mutations
    /\ last.exc = <<"SuiteError", "No such context">>
    /\ DOMAIN contexts # {}
    /\ tools # None

\* The tables a resolution of a suite gives.
Tables(self, dsk) ==
    LET u == _update_tools(self, dsk)
    IN  [exc |-> u.exc, tools |-> u.self.tools, tool_conflicts |-> u.self.tool_conflicts]

\* C8: for a registry built in memory, save(path) and then load(path) succeed
\* and the loaded registry resolves to the same winning table and the same
\* conflict table.
C8_SaveLoadRoundTrip ==
    load_path = None =>
        \A path \in Paths, order \in Orders(context_names(Self)) :
            LET s == save(Self, disk, path, order)
                l == load(s.self, s.disk, path)
            IN  /\ s.exc = None
                /\ l.exc = None
                /\ Tables(l.ret, l.disk) = Tables(Self, disk)

\* C9: hide_tool(c, t) then unhide_tool(c, t) on a tool that is not hidden, and
\* unhide_tool(c, t) then hide_tool(c, t) on a hidden one, give the winning
\* table and the conflict table that the resolution gave before the two calls,
\* and no call changes a priority or the clock.
Priorities(self) ==
    <<[c \in DOMAIN self.contexts |-> self.contexts[c]["priority"]], self.next_priority>>

C9_HideUnhideRestores ==
    \A c \in DOMAIN contexts, t \in {"maya", "nuke"} :
        LET first == IF t \in contexts[c]["hidden_tools"]
                     THEN unhide_tool(Self, disk, c, t)
                     ELSE hide_tool(Self, disk, c, t)
            second == IF t \in contexts[c]["hidden_tools"]
                      THEN hide_tool(first.self, first.disk, c, t)
                      ELSE unhide_tool(first.self, first.disk, c, t)
        IN  /\ first.exc = None
            /\ second.exc = None
            /\ Tables(second.self, second.disk) = Tables(Self, disk)
            /\ Priorities(first.self) = Priorities(Self)
            /\ Priorities(second.self) = Priorities(Self)

\* C9 witness: unhide_tool was called for a tool whose hiding changes the
\* resolution.
C9_Witness ==
    /\ last.op = "unhide_tool"
    /\ Returned
    /\ tools = None
    /\ \E c \in DOMAIN contexts :
           /\ last.args = <<c, "maya">>
           /\ "maya" \notin contexts[c]["hidden_tools"]
           /\ Tables(hide_tool(Self, disk, c, "maya").self, disk) # Tables(Self, disk)

\* C10: in every state and for every context c of the registry, bump_context(c)
\* changes no entry but c's and of c's nothing but the priority; after it every
\* alias that c claims is won by c, and every alias that c does not claim has
\* the winner and the conflict list it had before.
C10_BumpFlipsOnlyItsAliases ==
    \A c \in DOMAIN contexts :
        LET r == bump_context(Self, disk, c)
            mine == {e.tool_alias : e \in ClaimsOf(contexts[c])}
            after == get_tools(r.self, r.disk).ret
        IN  /\ r.exc = None
            /\ r.self.load_path = load_path
            /\ r.disk = disk
            /\ DOMAIN r.self.contexts = DOMAIN contexts
            /\ \A d \in DOMAIN contexts \ {c} : r.self.contexts[d] = contexts[d]
            /\ Del(r.self.contexts[c], "priority") = Del(contexts[c], "priority")
            /\ r.self.contexts[c]["priority"] # contexts[c]["priority"]
            /\ \A a \in mine : after[a].context_name = c
            /\ \A a \in (DOMAIN Winners \cup DOMAIN after) \ mine :
                   /\ a \in DOMAIN Winners
                   /\ a \in DOMAIN after
                   /\ after[a] = Winners[a]
                   /\ get_alias_conflicts(r.self, r.disk, a).ret = ConflictsOf(a)

\* C10 witness: of two contexts the one with the lower priority was bumped; it
\* now wins an alias over the other, and the other still wins an alias that the
\* bumped one does not claim.
C10_Witness ==
    /\ last.op = "bump_context"
    /\ Returned
    /\ \E c, d \in DOMAIN contexts :
           /\ DOMAIN contexts = {c, d}
           /\ c # d
           /\ last.args = <<c>>
           /\ contexts[d]["priority"] = next_priority - 2
           /\ \E a \in DOMAIN Winners :
                  /\ Winners[a].context_name = c
                  /\ \E i \in DOMAIN ConflictsOf(a) : ConflictsOf(a)[i].context_name = d
           /\ \E a \in DOMAIN Winners :
                  /\ Winners[a].context_name = d
                  /\ a \notin {e.tool_alias : e \in ClaimsOf(contexts[c])}

\* C11: after a save(path) that raised, load(path) raises too: what the failed
\* save left at path is not loaded as a registry.
C11_FailedSaveNotLoadable ==
    (last.op = "save" /\ last.exc # None) =>
        load(Self, disk, last.args[1]).exc # None

\* The files of dsk directly under the directory dir.
FilesIn(dsk, dir) ==
    {f \in DOMAIN dsk.files : Len(f) = Len(dir) + 1 /\ IsPrefix(dir, f)}

\* C12: right after a successful save(path) the files of <path>/bin are named
\* exactly by the aliases of the winning table of the registry, and the stub of
\* each alias holds the context name and the original tool name of the alias's
\* winner; an entry that is only in a conflict list has no stub of its own.
C12_StubsAreWinners ==
    (last.op = "save" /\ Returned) =>
        LET bin_path == os_path_join(last.args[1], <<"bin">>)
            winning == get_tools(_flush_tools(Self), disk).ret
        IN  /\ FilesIn(disk, bin_path) =
                   {os_path_join(bin_path, <<a>>) : a \in DOMAIN winning}
            /\ \A a \in DOMAIN winning :
                   LET stub == disk.files[os_path_join(bin_path, <<a>>)]
                   IN  /\ stub.func_name = "_FWD__invoke_suite_tool_alias"
                       /\ stub.context_name = winning[a].context_name
                       /\ stub.tool_name = winning[a].tool_name

\* C12 witness: a save succeeded on a registry in which a tool of one context
\* is shadowed by a tool of another, so that only the winner has a stub.
C12_Witness ==
    /\ last.op = "save"
    /\ Returned
    /\ \E a \in DOMAIN tool_conflicts[1] :
           LET stub == disk.files[os_path_join(last.args[1], <<"bin", a>>)]
           IN  \E i \in DOMAIN tool_conflicts[1][a] :
                   /\ tool_conflicts[1][a][i].context_name # stub.context_name
                   /\ tools[1][a].context_name = stub.context_name

\* The tokens of args that are no option string.
PassThrough(args) == SelectSeq(args, LAMBDA tok : tok \notin OptionStrings)

\* C13: in every run of Alias.run that gets past the parsing of its options,
\* with args the arguments it parses: if args holds +c / ++command, the command
\* is exactly the tokens that follow the last of them up to the next option,
\* whatever the tool name, +i and the other tokens are; otherwise, if args holds
\* +i / ++interactive, no command is passed and the prompt names the context;
\* otherwise the command is the tool name followed by the tokens of args that
\* are no options, in order.  Exactly one shell is executed, in the alias's
\* context, and the run returns the code that shell returned.
C13_CommandPrecedence ==
    (proc # None /\ proc.run # None /\ proc.run.exc = None) =>
        LET args == proc.sys_argv
            run == proc.run
            cmd == run.shells[1].command
        IN  /\ Len(run.shells) = 1
            /\ run.shells[1].context = proc.alias.context.id
            /\ run.ret = Some(proc.retcode)
            /\ proc.exc = <<"SystemExit", proc.retcode>>
            /\ IF \E i \in DOMAIN args : args[i] \in CommandFlags
               THEN \E i \in DOMAIN args, j \in DOMAIN args :
                        /\ args[i] \in CommandFlags
                        /\ \A k \in DOMAIN args : k > i => args[k] \notin CommandFlags
                        /\ i < j
                        /\ \A k \in (i + 1)..j : args[k] \notin OptionStrings
                        /\ j = Len(args) \/ args[j + 1] \in OptionStrings
                        /\ cmd = SubSeq(args, i + 1, j)
               ELSE IF \E i \in DOMAIN args : args[i] \in InteractiveFlags
               THEN /\ cmd = None
                    /\ run.prompt = Some(proc.alias.context_name \o ">")
               ELSE cmd = <<proc.alias.tool_name>> \o PassThrough(args)

\* C13 witness: a run was given +i, then +c with one token, and executed that
\* token alone, for a stub whose tool name differs from its alias.
C13_Witness ==
    /\ proc # None
    /\ proc.sys_argv = <<"+i", "+c", "echo">>
    /\ proc.run.shells[1].command = <<"echo">>
    /\ proc.script[Len(proc.script)] # proc.alias.tool_name
    /\ proc.retcode = 1

\* C14: the command a run of Alias.run executes is a function of the
\* (context_name, tool_name, cli_args) the Alias was constructed with: it is
\* what the run executes when the command line of the process is cli_args, and
\* when cli_args holds neither +c nor +i it is the tool name followed by the
\* tokens of cli_args that are no options, in order.
C14_OnlyCliArgs ==
    (proc # None /\ proc.alias # None) =>
        LET own == Alias_run(proc.alias, proc.cli_args, proc.stdin_ready, proc.retcode)
        IN  /\ proc.run.exc = own.exc
            /\ proc.run.shells = own.shells
            /\ (\A i \in DOMAIN proc.cli_args :
                    proc.cli_args[i] \notin CommandFlags \cup InteractiveFlags) =>
                   /\ proc.run.exc = None
                   /\ proc.run.shells[1].command =
                          <<proc.alias.tool_name>> \o PassThrough(proc.cli_args)

\* The orders in which the values of the dict that a context's get_tools()
\* returns can be iterated.
ToolListings(ctx) ==
    {[i \in DOMAIN ctx.tools |-> ctx.tools[p[i]]] :
        p \in {q \in [DOMAIN ctx.tools -> DOMAIN ctx.tools] :
                  \A i, j \in DOMAIN ctx.tools : q[i] = q[j] => i = j}}

\* The registries that differ from ctxs in nothing but those orders.
Reorderings(ctxs) ==
    {[c \in DOMAIN ctxs |-> [ctxs[c] EXCEPT !["context"].tools = f[c]]] :
        f \in {g \in [DOMAIN ctxs ->
                        UNION {ToolListings(ctxs[c]["context"]) : c \in DOMAIN ctxs}] :
                  \A c \in DOMAIN ctxs : g[c] \in ToolListings(ctxs[c]["context"])}}

\* C15: in every state of the registry, for every order in which the tool
\* listing of each context can be iterated, the resolution gives the same
\* winning table and the same conflict table.
C15_ResolutionDeterministic ==
    \A ctxs \in Reorderings(contexts) :
        Tables(_flush_tools([Self EXCEPT !.contexts = ctxs]), disk)
            = Tables(_flush_tools(Self), disk)

\* C16: whenever the cached resolution is valid (tools is not None), the
\* cached winning table and conflict table are those that a fresh resolution of
\* the registry computes, which then succeeds.
C16_CacheCoherent ==
    tools # None =>
        LET fresh == _update_tools(_flush_tools(Self), disk)
        IN  /\ fresh.exc = None
            /\ fresh.self.tools = tools
            /\ fresh.self.tool_conflicts = tool_conflicts

\* C17: hide_tool of a hidden tool, unhide_tool of a tool that is not hidden,
\* dealias_tool of a tool without alias and alias_tool of a tool with the alias
\* it already has return without changing the suite object: the entries, the
\* clock and the cached resolution are as before, so that a resolution that was
\* valid is still valid and the next get_tools() returns it without a pass.
C17_NoOpTogglesKeepCache ==
    \A c \in DOMAIN contexts, t \in {"maya", "nuke"} :
        LET r == IF t \in contexts[c]["hidden_tools"]
                 THEN hide_tool(Self, disk, c, t)
                 ELSE unhide_tool(Self, disk, c, t)
            a == IF t \in DOMAIN contexts[c]["tool_aliases"]
                 THEN alias_tool(Self, disk, c, t, contexts[c]["tool_aliases"][t])
                 ELSE dealias_tool(Self, disk, c, t)
        IN  /\ r = Return(Self, disk, None)
            /\ a = Return(Self, disk, None)
            /\ tools # None =>
                   /\ _update_tools(r.self, r.disk) = Return(Self, disk, None)
                   /\ _update_tools(a.self, a.disk) = Return(Self, disk, None)

\* C17 witness: alias_tool was called with the alias the tool already had, on a
\* registry with a valid resolution.
C17_Witness ==
    /\ last.op = "alias_tool"
    /\ Returned
    /\ tools # None
    /\ \E c \in DOMAIN contexts :
           /\ last.args[1] = c
           /\ last.args[2] \in DOMAIN contexts[c]["tool_aliases"]
           /\ contexts[c]["tool_aliases"][last.args[2]] = last.args[3]
           /\ \E x \in DOMAIN tools[1] : tools[1][x].tool_alias = last.args[3]

\* C18: load reads no snapshot; an entry whose context is not loaded is read
\* from <load_path>/contexts/<name>.rxt on its first access and keeps what was
\* read; an entry whose context is there (loaded, or supplied by add_context)
\* is returned without reading the disk, and keeps that context in every step.
C18_State ==
    /\ (last.op = "load" /\ Returned) =>
           /\ \A c \in DOMAIN contexts : "context" \notin DOMAIN contexts[c]
           /\ load(Self, shutil_rmtree(disk, os_path_join(load_path, <<"contexts">>)),
                   load_path).ret = Self
    /\ \A c \in DOMAIN contexts :
           IF "context" \in DOMAIN contexts[c]
           THEN context(Self, EmptyDisk, c)
                    = Return(Self, EmptyDisk, contexts[c]["context"])
           ELSE LET f == os_path_join(load_path, <<"contexts", RxtName(c)>>)
                    r == context(Self, disk, c)
                IN  /\ load_path # None
                    /\ r.disk = disk
                    /\ IF f \in DOMAIN disk.files
                       THEN /\ r.exc = None
                            /\ r.ret = disk.files[f][2]
                            /\ r.self = [Self EXCEPT !.contexts[c] =
                                                         Put(@, "context", r.ret)]
                       ELSE r.exc # None /\ r.self = Self

C18_Step ==
    ~(last'.op = "load" /\ last'.exc = None) =>
        \A c \in DOMAIN contexts \cap DOMAIN contexts' :
            "context" \in DOMAIN contexts[c] =>
                /\ "context" \in DOMAIN contexts'[c]
                /\ contexts'[c]["context"] = contexts[c]["context"]

C18_LazyLoadOnce == []C18_State /\ [][C18_Step]_vars

\* C18 witness: of the two entries of a loaded suite, context() has read one
\* and the other is not read yet.
C18_Witness ==
    /\ last.op = "context"
    /\ Returned
    /\ load_path # None
    /\ next_priority = 3
    /\ \E c, d \in DOMAIN contexts :
           /\ c # d
           /\ last.args = <<c>>
           /\ "context" \in DOMAIN contexts[c]
           /\ "context" \notin DOMAIN contexts[d]

\* C19: every alias of the conflict table is an alias of the winning table and
\* has a non-empty list, and every entry of the list is of a context other than
\* the winner's, with a priority lower than the winner's.
C19_ConflictsBetweenContexts ==
    \A a \in get_conflicting_aliases(Self, disk).ret :
        /\ a \in DOMAIN Winners
        /\ ConflictsOf(a) # <<>>
        /\ \A i \in DOMAIN ConflictsOf(a) :
               LET e == ConflictsOf(a)[i]
               IN  /\ e.context_name # Winners[a].context_name
                   /\ contexts[e.context_name]["priority"]
                          < contexts[Winners[a].context_name]["priority"]

\* C20: right after load(P), save(P) returns and leaves at P the metadata, the
\* snapshot of every entry and the stub of every winning alias.
C20_SaveToOrigin ==
    (last.op = "load" /\ Returned) =>
        \A order \in Orders(context_names(Self)) :
            LET s == save(Self, disk, load_path, order)
            IN  /\ s.exc = None
                /\ os_path_isfile(s.disk, os_path_join(load_path, <<"suite.yaml">>))
                /\ \A c \in DOMAIN contexts :
                       os_path_isfile(s.disk,
                                      os_path_join(load_path, <<"contexts", RxtName(c)>>))
                /\ \A a \in DOMAIN s.self.tools[1] :
                       os_path_isfile(s.disk, os_path_join(load_path, <<"bin", a>>))

====
